---- MODULE Spec2Model ----
(***************************************************************************)
(* MockoonServer (src/mockoon/server.py): one session object, driven by a  *)
(* single foreground caller, with its background log-streaming thread, the *)
(* watchdog observer of the file-backed variant, and the external          *)
(* mockoon-cli process or container that writes the log.                   *)
(***************************************************************************)
EXTENDS Integers, Sequences, FiniteSets, TLC

\* Number of public calls the foreground caller makes on the session object.
MaxCalls == 3
\* Number of log lines the external server writes over the life of the object.
MaxLines == 2

None == "None"

\* Log lines as the external tool writes them.  json: the line is a JSON
\* object with the required keys; message: the free text, as chunks; route:
\* transaction.request.route, or None when the record has no transaction key.
server_start_msg_prefix == "Server started on port "
ReadyLine == [json |-> TRUE, message |-> <<server_start_msg_prefix, "3000">>, route |-> None]
HitLine == [json |-> TRUE, message |-> <<"GET /r | 200">>, route |-> "/r"]
BadLine == [json |-> FALSE, message |-> <<>>, route |-> None]
Lines == {ReadyLine, HitLine, BadLine}

\* Labels the foreground caller waits for: wait_for_active, wait_for_route_hit("r").
WaitLabels == {"ready", "/r"}

VARIABLES
  use_docker,            \* constructor option
  server,                \* external process / container: "down" | "up"
  stdout,                \* docker variant: lines of `docker logs -f` not yet read
  log_file,              \* file variant: lines of the log file
  file_exists,           \* file variant: the log file exists
  emitted,               \* lines written by the external server so far
  log_messages,          \* self.log_messages
  event_queue,           \* self.event_queue
  stop_event,            \* self.stop_event
  log_streaming_thread,  \* None, or the position of the thread in _stream_logs
  pending,               \* initial_read: lines read and not yet handed to the callback
  cur,                   \* process_line: the LogMessage being processed
  ppc,                   \* process_line: position
  observer,              \* PollingObserver of the file variant
  snapshot,              \* PollingObserver: file length at the last poll
  obs_events,            \* PollingObserver: queued modification events
  read_len,              \* LogFileEventHandler: len(content) of its last readlines()
  fpc,                   \* foreground caller: position
  ret,                   \* foreground: who called stop / _wait_for_event
  expected_event,        \* _wait_for_event: expected_event
  expired,               \* the running wait's deadline has passed
  event,                 \* _wait_for_event: the event popped in this iteration
  last,                  \* the last public call that returned, and how
  calls,                 \* public calls made so far
  reset_done             \* reset_transactions() was called

ext == <<server, stdout, log_file, file_exists, emitted>>
sess == <<log_messages, event_queue, stop_event, log_streaming_thread>>
proc == <<pending, cur, ppc>>
obs == <<observer, snapshot, obs_events, read_len>>
fg == <<fpc, ret, expected_event, expired, event, last, calls, reset_done>>
vars == <<use_docker, ext, sess, proc, obs, fg>>

NoMsg == [message |-> <<>>, transaction |-> None]
NoCall == [op |-> "none", arg |-> "", outcome |-> ""]

\* Thread.is_alive() of self.log_streaming_thread (a Thread object).
is_alive(t) == t \notin {None, "done"}

\* json.loads(line) and LogMessage.from_log_entry(log_entry) return normally.
Parses(line) == line.json

from_log_entry(line) == [message |-> line.message, transaction |-> line.route]

\* `server_start_msg_prefix in message`
HasMarker(message) == \E i \in 1..Len(message) : message[i] = server_start_msg_prefix

Init ==
  /\ use_docker \in BOOLEAN
  /\ server = "down"
  /\ stdout = <<>>
  /\ log_file = <<>>
  /\ file_exists = FALSE
  /\ emitted = 0
  /\ log_messages = <<>>
  /\ event_queue = <<>>
  /\ stop_event = FALSE
  /\ log_streaming_thread = None
  /\ pending = <<>>
  /\ cur = NoMsg
  /\ ppc = "idle"
  /\ observer = "none"
  /\ snapshot = 0
  /\ obs_events = 0
  /\ read_len = 0
  /\ fpc = "idle"
  /\ ret = "user"
  /\ expected_event = ""
  /\ expired = FALSE
  /\ event = None
  /\ last = NoCall
  /\ calls = 0
  /\ reset_done = FALSE

----
\* The external server.

\* A running server writes one line to its log (container stdout / log file).
ServerLog ==
  /\ server = "up"
  /\ emitted < MaxLines
  /\ \E l \in Lines :
       IF use_docker
         THEN /\ stdout' = Append(stdout, l)
              /\ UNCHANGED <<log_file, file_exists>>
         ELSE /\ log_file' = Append(log_file, l)
              /\ file_exists' = TRUE
              /\ UNCHANGED stdout
  /\ emitted' = emitted + 1
  /\ UNCHANGED <<use_docker, server, sess, proc, obs, fg>>

----
\* process_line, the callback of the log source.

\* Lines 196-208: parse; on a transaction put its route on the event queue.
\* A parse failure raises in the caller's thread: crashThread / crashObserver
\* are the states of the log thread and of the observer after the exception.
process_line_parse(line, crashThread, crashObserver) ==
  IF Parses(line)
    THEN /\ cur' = from_log_entry(line)
         /\ ppc' = "append"
         /\ event_queue' = IF line.route # None
                             THEN Append(event_queue, line.route)
                             ELSE event_queue
         /\ UNCHANGED <<log_streaming_thread, observer>>
    ELSE /\ UNCHANGED <<cur, ppc, event_queue>>
         /\ log_streaming_thread' = crashThread
         /\ observer' = crashObserver

\* Variant of process_line_append: the message is put at the front.
process_line_appendFront ==
  /\ ppc = "append"
  /\ log_messages' = <<cur>> \o log_messages
  /\ IF HasMarker(cur.message)
       THEN ppc' = "ready" /\ UNCHANGED cur
       ELSE ppc' = "idle" /\ cur' = NoMsg
  /\ UNCHANGED <<use_docker, ext, event_queue, stop_event, log_streaming_thread,
                 pending, obs, fg>>

\* Line 210: self.log_messages.append(log_message)
process_line_append ==
  /\ ppc = "append"
  /\ log_messages' = Append(log_messages, cur)
  /\ IF HasMarker(cur.message)
       THEN ppc' = "ready" /\ UNCHANGED cur
       ELSE ppc' = "idle" /\ cur' = NoMsg
  /\ UNCHANGED <<use_docker, ext, event_queue, stop_event, log_streaming_thread,
                 pending, obs, fg>>

\* Lines 212-215: the readiness event.
process_line_ready ==
  /\ ppc = "ready"
  /\ event_queue' = Append(event_queue, "ready")
  /\ ppc' = "idle"
  /\ cur' = NoMsg
  /\ UNCHANGED <<use_docker, ext, log_messages, stop_event, log_streaming_thread,
                 pending, obs, fg>>

----
\* _stream_logs, the background thread.

\* Lines 218-221: the container stream.  The iteration ends at end-of-stream,
\* which `docker logs -f` reaches once the container is stopped.
DockerLoop ==
  /\ log_streaming_thread = "docker_loop"
  /\ ppc = "idle"
  /\ \/ /\ stdout # <<>>
        /\ stdout' = Tail(stdout)
        /\ IF stop_event
             THEN /\ log_streaming_thread' = "done"
                  /\ UNCHANGED <<cur, ppc, event_queue, observer>>
             ELSE process_line_parse(Head(stdout), "done", observer)
     \/ /\ stdout = <<>>
        /\ server = "down"
        /\ log_streaming_thread' = "done"
        /\ UNCHANGED <<stdout, cur, ppc, event_queue, observer>>
  /\ UNCHANGED <<use_docker, server, log_file, file_exists, emitted, log_messages,
                 stop_event, pending, snapshot, obs_events, read_len, fg>>

\* LogFileEventHandler.initial_read, lines 56-57: file.readlines()
InitialRead ==
  /\ log_streaming_thread = "initial_read"
  /\ pending' = log_file
  /\ read_len' = Len(log_file)
  /\ log_streaming_thread' = "initial_lines"
  /\ UNCHANGED <<use_docker, ext, log_messages, event_queue, stop_event, cur, ppc,
                 observer, snapshot, obs_events, fg>>

\* LogFileEventHandler.initial_read, lines 58-59: the callback on each line.
InitialReadLine ==
  /\ log_streaming_thread = "initial_lines"
  /\ ppc = "idle"
  /\ pending # <<>>
  /\ process_line_parse(Head(pending), "done", observer)
  /\ pending' = IF Parses(Head(pending)) THEN Tail(pending) ELSE <<>>
  /\ UNCHANGED <<use_docker, ext, log_messages, stop_event, snapshot, obs_events,
                 read_len, fg>>

\* Lines 228-230: the observer starts and takes its first snapshot.
ObserverStart ==
  /\ log_streaming_thread = "initial_lines"
  /\ ppc = "idle"
  /\ pending = <<>>
  /\ observer' = "running"
  /\ snapshot' = Len(log_file)
  /\ obs_events' = 0
  /\ log_streaming_thread' = "watch"
  /\ UNCHANGED <<use_docker, ext, log_messages, event_queue, stop_event, proc,
                 read_len, fg>>

\* PollingObserver: the file changed since the last snapshot; queue an event.
ObserverPoll ==
  /\ observer = "running"
  /\ Len(log_file) # snapshot
  /\ snapshot' = Len(log_file)
  /\ obs_events' = obs_events + 1
  /\ UNCHANGED <<use_docker, ext, sess, proc, observer, read_len, fg>>

\* LogFileEventHandler.on_modified: re-read the file, callback on content[-1:].
\* An exception of the callback ends the observer's dispatch thread.
on_modified ==
  /\ observer = "running"
  /\ obs_events > 0
  /\ ppc = "idle"
  /\ obs_events' = obs_events - 1
  /\ read_len' = Len(log_file)
  /\ IF log_file = <<>>
       THEN UNCHANGED <<cur, ppc, event_queue, log_streaming_thread, observer>>
       ELSE process_line_parse(log_file[Len(log_file)], log_streaming_thread, "dead")
  /\ UNCHANGED <<use_docker, ext, log_messages, stop_event, pending, snapshot, fg>>

\* Lines 232-236: the sleep loop sees the stop signal; observer.stop(), join().
WatchExit ==
  /\ log_streaming_thread = "watch"
  /\ stop_event
  /\ ppc = "idle"
  /\ observer' = "stopped"
  /\ obs_events' = 0
  /\ snapshot' = 0
  /\ read_len' = 0
  /\ log_streaming_thread' = "done"
  /\ UNCHANGED <<use_docker, ext, log_messages, event_queue, stop_event, proc, fg>>

----
\* The foreground caller.

\* A public call returns (normally or by raising) to the caller.
Return(op, arg, outcome) ==
  /\ fpc' = "idle"
  /\ last' = [op |-> op, arg |-> arg, outcome |-> outcome]
  /\ ret' = "user"
  /\ expected_event' = ""
  /\ expired' = FALSE
  /\ event' = None

\* _wait_for_event returns or raises: to the caller of start() or of wait_for_*.
WaitReturn(outcome) ==
  IF ret = "start"
    THEN Return("start", "", outcome)
    ELSE Return("wait", expected_event, outcome)

\* Variant of CallStart: start() without the stop() of line 275.
CallStartNoStop ==
  /\ fpc = "idle"
  /\ calls < MaxCalls
  /\ calls' = calls + 1
  /\ fpc' = "launch"
  /\ ret' = "start"
  /\ UNCHANGED <<use_docker, ext, sess, proc, obs, expected_event, expired, event, last,
                 reset_done>>

CallStart ==
  /\ fpc = "idle"
  /\ calls < MaxCalls
  /\ calls' = calls + 1
  /\ fpc' = "stop_cleanup"
  /\ ret' = "start"
  /\ UNCHANGED <<use_docker, ext, sess, proc, obs, expected_event, expired, event, last,
                 reset_done>>

CallStop ==
  /\ fpc = "idle"
  /\ calls < MaxCalls
  /\ calls' = calls + 1
  /\ fpc' = "stop_cleanup"
  /\ ret' = "user"
  /\ UNCHANGED <<use_docker, ext, sess, proc, obs, expected_event, expired, event, last,
                 reset_done>>

\* MockoonAPI.start_logging() (api.py lines 120-121) delegates to the logging
\* controller, which calls self.server.start_log_stream(); MockoonServer has no
\* such attribute, so the call raises AttributeError and touches nothing.
start_logging ==
  /\ fpc = "idle"
  /\ calls < MaxCalls
  /\ calls' = calls + 1
  /\ last' = [op |-> "start_logging", arg |-> "", outcome |-> "attribute_error"]
  /\ UNCHANGED <<use_docker, ext, sess, proc, obs, fpc, ret, expected_event, expired,
                 event, reset_done>>

\* MockoonAPI.stop_logging() (api.py lines 123-124): self.server.stop_log_stream()
\* does not exist either.
stop_logging ==
  /\ fpc = "idle"
  /\ calls < MaxCalls
  /\ calls' = calls + 1
  /\ last' = [op |-> "stop_logging", arg |-> "", outcome |-> "attribute_error"]
  /\ UNCHANGED <<use_docker, ext, sess, proc, obs, fpc, ret, expected_event, expired,
                 event, reset_done>>

\* wait_for_active() / wait_for_route_hit(route), lines 327-330.
CallWait ==
  /\ fpc = "idle"
  /\ calls < MaxCalls
  /\ calls' = calls + 1
  /\ \E label \in WaitLabels : expected_event' = label
  /\ fpc' = "wait_check"
  /\ ret' = "user"
  /\ expired' = FALSE
  /\ UNCHANGED <<use_docker, ext, sess, proc, obs, event, last, reset_done>>

\* Variant of reset_transactions: the history is left as it is.
reset_transactionsNoop ==
  /\ fpc = "idle"
  /\ calls < MaxCalls
  /\ calls' = calls + 1
  /\ log_messages' = log_messages
  /\ reset_done' = TRUE
  /\ last' = [op |-> "reset", arg |-> "", outcome |-> "ok"]
  /\ UNCHANGED <<use_docker, ext, event_queue, stop_event, log_streaming_thread,
                 proc, obs, fpc, ret, expected_event, expired, event>>

\* reset_transactions(): self.log_messages = []
reset_transactions ==
  /\ fpc = "idle"
  /\ calls < MaxCalls
  /\ calls' = calls + 1
  /\ log_messages' = <<>>
  /\ reset_done' = TRUE
  /\ last' = [op |-> "reset", arg |-> "", outcome |-> "ok"]
  /\ UNCHANGED <<use_docker, ext, event_queue, stop_event, log_streaming_thread,
                 proc, obs, fpc, ret, expected_event, expired, event>>

\* Variant of StopCleanup: a cleanup that also drains the event queue.
StopCleanupDrain ==
  /\ fpc = "stop_cleanup"
  /\ server' = "down"
  /\ event_queue' = <<>>
  /\ fpc' = "stop_set"
  /\ UNCHANGED <<use_docker, stdout, log_file, file_exists, emitted, log_messages,
                 stop_event, log_streaming_thread, proc, obs, ret, expected_event,
                 expired, event, last, calls, reset_done>>

\* stop(), line 367: _cleanup() stops and removes the container / the process.
StopCleanup ==
  /\ fpc = "stop_cleanup"
  /\ server' = "down"
  /\ fpc' = "stop_set"
  /\ UNCHANGED <<use_docker, stdout, log_file, file_exists, emitted, sess, proc, obs,
                 ret, expected_event, expired, event, last, calls, reset_done>>

\* stop(), after the join (or with no thread): back to the caller.
StopReturn ==
  IF ret = "start"
    THEN /\ fpc' = "launch"
         /\ UNCHANGED <<ret, expected_event, expired, event, last>>
    ELSE Return("stop", "", "ok")

\* Variant of StopSet: stop() joins the thread without signalling it.
StopSetNoSignal ==
  /\ fpc = "stop_set"
  /\ IF log_streaming_thread = None
       THEN StopReturn
       ELSE /\ fpc' = "stop_join"
            /\ UNCHANGED <<ret, expected_event, expired, event, last>>
  /\ UNCHANGED <<use_docker, ext, sess, proc, obs, calls, reset_done>>

\* stop(), lines 369-370: if self.log_streaming_thread: self.stop_event.set()
StopSet ==
  /\ fpc = "stop_set"
  /\ IF log_streaming_thread = None
       THEN StopReturn /\ UNCHANGED stop_event
       ELSE /\ stop_event' = TRUE
            /\ fpc' = "stop_join"
            /\ UNCHANGED <<ret, expected_event, expired, event, last>>
  /\ UNCHANGED <<use_docker, ext, log_messages, event_queue, log_streaming_thread,
                 proc, obs, calls, reset_done>>

\* Variant of StopJoin: stop() returns without joining the thread.
StopJoinNoWait ==
  /\ fpc = "stop_join"
  /\ StopReturn
  /\ UNCHANGED <<use_docker, ext, sess, proc, obs, calls, reset_done>>

\* stop(), line 371: self.log_streaming_thread.join()
StopJoin ==
  /\ fpc = "stop_join"
  /\ ~is_alive(log_streaming_thread)
  /\ StopReturn
  /\ UNCHANGED <<use_docker, ext, sess, proc, obs, calls, reset_done>>

\* start(), lines 277-279: _pre_start() deletes the old log file; run(command).
Launch ==
  /\ fpc = "launch"
  /\ server' = "up"
  /\ stdout' = <<>>
  /\ log_file' = <<>>
  /\ file_exists' = FALSE
  /\ fpc' = "log_source"
  /\ UNCHANGED <<use_docker, emitted, sess, proc, obs, ret, expected_event, expired,
                 event, last, calls, reset_done>>

\* start(), lines 281-297: the log source; the file variant waits for the file.
LogSource ==
  /\ fpc = "log_source"
  /\ IF use_docker \/ file_exists
       THEN fpc' = "thread_start"
       ELSE fpc' = "wait_file"
  /\ expired' = FALSE
  /\ UNCHANGED <<use_docker, ext, sess, proc, obs, ret, expected_event, event, last,
                 calls, reset_done>>

\* start(), lines 299-315: the file was created, or the 60 s ran out.
WaitFile ==
  /\ fpc = "wait_file"
  /\ file_exists \/ expired
  /\ IF expired
       THEN Return("start", "", "no_log_file")
       ELSE /\ fpc' = "thread_start"
            /\ UNCHANGED <<ret, expected_event, expired, event, last>>
  /\ UNCHANGED <<use_docker, ext, sess, proc, obs, calls, reset_done>>

\* start(), lines 317-324: the thread is created and started; wait_for_active().
\* log_source is a Popen object or a Path, so line 191 never returns early.
ThreadStart ==
  /\ fpc = "thread_start"
  /\ log_streaming_thread' = IF use_docker THEN "docker_loop" ELSE "initial_read"
  /\ expected_event' = "ready"
  /\ expired' = FALSE
  /\ fpc' = "wait_check"
  /\ UNCHANGED <<use_docker, ext, log_messages, event_queue, stop_event, proc, obs,
                 ret, event, last, calls, reset_done>>

\* Variant of WaitCheck: a wait that tears the session down when it times out.
WaitCheckStopsOnTimeout ==
  /\ fpc = "wait_check"
  /\ IF log_streaming_thread = None
       THEN WaitReturn("attribute_error") /\ UNCHANGED stop_event
       ELSE IF ~is_alive(log_streaming_thread)
         THEN WaitReturn("not_alive") /\ UNCHANGED stop_event
         ELSE IF expired
           THEN WaitReturn("timeout") /\ stop_event' = TRUE
           ELSE /\ fpc' = "wait_get"
                /\ UNCHANGED <<ret, expected_event, expired, event, last, stop_event>>
  /\ UNCHANGED <<use_docker, ext, log_messages, event_queue, log_streaming_thread,
                 proc, obs, calls, reset_done>>

\* _wait_for_event, lines 333-339.  is_alive() on None raises AttributeError.
WaitCheck ==
  /\ fpc = "wait_check"
  /\ IF log_streaming_thread = None
       THEN WaitReturn("attribute_error")
       ELSE IF ~is_alive(log_streaming_thread)
         THEN WaitReturn("not_alive")
         ELSE IF expired
           THEN WaitReturn("timeout")
           ELSE /\ fpc' = "wait_get"
                /\ UNCHANGED <<ret, expected_event, expired, event, last>>
  /\ UNCHANGED <<use_docker, ext, sess, proc, obs, calls, reset_done>>

\* Variant of WaitGet: a popped event that does not match is put back.
WaitGetRequeue ==
  /\ fpc = "wait_get"
  /\ IF expired
       THEN WaitReturn("value_error") /\ UNCHANGED event_queue
       ELSE IF event_queue # <<>>
         THEN IF Head(event_queue) = expected_event
                THEN event_queue' = Tail(event_queue) /\ WaitReturn("ok")
                ELSE /\ event_queue' = Append(Tail(event_queue), Head(event_queue))
                     /\ event' = Head(event_queue)
                     /\ fpc' = "wait_check"
                     /\ UNCHANGED <<ret, expected_event, expired, last>>
         ELSE /\ expired' = TRUE
              /\ event' = None
              /\ fpc' = "wait_check"
              /\ UNCHANGED <<event_queue, ret, expected_event, last>>
  /\ UNCHANGED <<use_docker, ext, log_messages, stop_event, log_streaming_thread,
                 proc, obs, calls, reset_done>>

\* Variant of WaitGet: a matching event is read but left in the queue.
WaitGetPeek ==
  /\ fpc = "wait_get"
  /\ IF expired
       THEN WaitReturn("value_error") /\ UNCHANGED event_queue
       ELSE IF event_queue # <<>>
         THEN IF Head(event_queue) = expected_event
                THEN WaitReturn("ok") /\ UNCHANGED event_queue
                ELSE /\ event_queue' = Tail(event_queue)
                     /\ event' = Head(event_queue)
                     /\ fpc' = "wait_check"
                     /\ UNCHANGED <<ret, expected_event, expired, last>>
         ELSE /\ expired' = TRUE
              /\ event' = None
              /\ fpc' = "wait_check"
              /\ UNCHANGED <<event_queue, ret, expected_event, last>>
  /\ UNCHANGED <<use_docker, ext, log_messages, stop_event, log_streaming_thread,
                 proc, obs, calls, reset_done>>

\* _wait_for_event, lines 341-349: remaining = timeout_time - time();
\* Queue.get(timeout=remaining) raises ValueError on a negative timeout, returns
\* the head of a non-empty queue, and otherwise blocks until the deadline (Empty).
WaitGet ==
  /\ fpc = "wait_get"
  /\ IF expired
       THEN WaitReturn("value_error") /\ UNCHANGED event_queue
       ELSE IF event_queue # <<>>
         THEN /\ event_queue' = Tail(event_queue)
              /\ IF Head(event_queue) = expected_event
                   THEN WaitReturn("ok")
                   ELSE /\ event' = Head(event_queue)
                        /\ fpc' = "wait_check"
                        /\ UNCHANGED <<ret, expected_event, expired, last>>
         ELSE /\ expired' = TRUE
              /\ event' = None
              /\ fpc' = "wait_check"
              /\ UNCHANGED <<event_queue, ret, expected_event, last>>
  /\ UNCHANGED <<use_docker, ext, log_messages, stop_event, log_streaming_thread,
                 proc, obs, calls, reset_done>>

\* Time passes the deadline of the wait in progress (time() > timeout_time).
\* The clock is abstracted to this one bit per wait: every time() the code reads
\* is either before or after the deadline, and it never goes back.
Expire ==
  /\ fpc \in {"wait_check", "wait_get", "wait_file"}
  /\ ~expired
  /\ expired' = TRUE
  /\ UNCHANGED <<use_docker, ext, sess, proc, obs, fpc, ret, expected_event, event,
                 last, calls, reset_done>>

----
Next ==
  \/ ServerLog
  \/ process_line_append
  \/ process_line_ready
  \/ DockerLoop
  \/ InitialRead
  \/ InitialReadLine
  \/ ObserverStart
  \/ ObserverPoll
  \/ on_modified
  \/ WatchExit
  \/ CallStart
  \/ CallStop
  \/ CallWait
  \/ start_logging
  \/ stop_logging
  \/ reset_transactions
  \/ StopCleanup
  \/ StopSet
  \/ StopJoin
  \/ Launch
  \/ LogSource
  \/ WaitFile
  \/ ThreadStart
  \/ WaitCheck
  \/ WaitGet
  \/ Expire

Spec == Init /\ [][Next]_vars

\* The same program under the scheduler: a thread that can take a step is
\* eventually run.  The log thread and the observer's threads, and the caller
\* inside stop(), are threads of the process; the external server's writes and
\* the passing of a deadline are not forced.
ThreadSteps ==
  \/ DockerLoop
  \/ InitialRead
  \/ InitialReadLine
  \/ ObserverStart
  \/ ObserverPoll
  \/ on_modified
  \/ WatchExit
  \/ process_line_append
  \/ process_line_ready

StopCallSteps ==
  \/ StopCleanup
  \/ StopSet
  \/ StopJoin

FairSpec == Spec /\ WF_vars(ThreadSteps) /\ WF_vars(StopCallSteps)

----
\* The file variant on its own.  The first start() of an object has launched
\* the server, found the log file with its first line and started the thread
\* (lines 299-321); the caller is in wait_for_active() and takes no step while
\* the server writes up to MaxLines more lines and the thread tails the file.
TailInit ==
  /\ use_docker = FALSE
  /\ server = "up"
  /\ stdout = <<>>
  /\ log_file \in {<<l>> : l \in Lines}
  /\ file_exists = TRUE
  /\ emitted = 0
  /\ log_messages = <<>>
  /\ event_queue = <<>>
  /\ stop_event = FALSE
  /\ log_streaming_thread = "initial_read"
  /\ pending = <<>>
  /\ cur = NoMsg
  /\ ppc = "idle"
  /\ observer = "none"
  /\ snapshot = 0
  /\ obs_events = 0
  /\ read_len = 0
  /\ fpc = "wait_check"
  /\ ret = "start"
  /\ expected_event = "ready"
  /\ expired = FALSE
  /\ event = None
  /\ last = NoCall
  /\ calls = 1
  /\ reset_done = FALSE

TailNext ==
  \/ ServerLog
  \/ InitialRead
  \/ InitialReadLine
  \/ ObserverStart
  \/ ObserverPoll
  \/ on_modified
  \/ process_line_append
  \/ process_line_ready

TailSpec == TailInit /\ [][TailNext]_vars

----
\* process_line on its own.  A docker session is running and its container has
\* written some lines that the thread has not read yet; the thread reads and
\* processes them.  Besides the lines of the lifecycle model the stream may hold
\* a line that carries a transaction and whose message contains the start
\* message prefix: process_line (lines 194-215) accepts any JSON log entry.
BothLine ==
  [json |-> TRUE, message |-> <<server_start_msg_prefix, "3000">>, route |-> "/r"]

AllLines == Lines \cup {BothLine}

LineInit ==
  /\ use_docker = TRUE
  /\ server = "up"
  /\ stdout \in UNION {[1..n -> AllLines] : n \in 1..(MaxLines + 1)}
  /\ log_file = <<>>
  /\ file_exists = FALSE
  /\ emitted = MaxLines
  /\ log_messages = <<>>
  /\ event_queue = <<>>
  /\ stop_event = FALSE
  /\ log_streaming_thread = "docker_loop"
  /\ pending = <<>>
  /\ cur = NoMsg
  /\ ppc = "idle"
  /\ observer = "none"
  /\ snapshot = 0
  /\ obs_events = 0
  /\ read_len = 0
  /\ fpc = "wait_check"
  /\ ret = "start"
  /\ expected_event = "ready"
  /\ expired = FALSE
  /\ event = None
  /\ last = NoCall
  /\ calls = 1
  /\ reset_done = FALSE

LineNext ==
  \/ DockerLoop
  \/ process_line_append
  \/ process_line_ready

LineSpec == LineInit /\ [][LineNext]_vars

----
\* Variant of transactions: every log message counts as a transaction.
transactionsAll == log_messages

\* Queries over the history (server.py lines 377-382).
transactions == SelectSeq(log_messages, LAMBDA m : m.transaction # None)

\* call_count, called, call_requests_list (server.py lines 388-406).
call_count == Len(transactions)

called == transactions # <<>>

\* call_request (lines 398-401): the request of the last transaction, or None.
call_request ==
  IF transactions # <<>> THEN transactions[Len(transactions)].transaction ELSE None

call_requests_list == [i \in 1..Len(transactions) |-> transactions[i].transaction]

\* assert_not_called(): assert not self.called.  The value is the outcome of a
\* call made in the current state.
assert_not_called == IF ~called THEN "ok" ELSE "AssertionError"

HasTransaction(route) == \E i \in 1..Len(log_messages) : log_messages[i].transaction = route

HasReadyMessage == \E i \in 1..Len(log_messages) : HasMarker(log_messages[i].message)

StartReturnedOk == fpc = "idle" /\ last.op = "start" /\ last.outcome = "ok"

StartFailed == fpc = "idle" /\ last.op = "start" /\ last.outcome # "ok"

StopSteps == {"stop_cleanup", "stop_set", "stop_join"}

----
\* The assertion primitives (assertion.py lines 91-195, repeated in server.py
\* lines 408-512).  Each operator is the outcome of the call made on the current
\* history: "ok" when it returns, otherwise the name of the exception it raises.

\* Bounds of the assertion model: recorded messages, expected entries.
MaxHistory == 3

MaxExpected == 2

\* The recorded requests, named by their route, and two of their attributes.
Requests == {"/r", "/s", "/t"}

RequestFields == {"method", "route"}

hasattr(request, key) == key \in RequestFields

getattr(request, key) ==
  IF key = "route" THEN request ELSE IF request = "/t" THEN "POST" ELSE "GET"

\* Keyword arguments of the *_with_properties calls: sets of <<key, value>>.
PropertySets ==
  { {},
    {<<"method", "GET">>},
    {<<"method", "POST">>},
    {<<"route", "/r">>},
    {<<"method", "GET">>, <<"route", "/s">>},
    {<<"nope", "x">>} }

\* list.count(x), x in list, and list.remove(x) (the first occurrence).
list_count(list, x) == Cardinality({i \in 1..Len(list) : list[i] = x})

list_contains(list, x) == \E i \in 1..Len(list) : list[i] = x

\* Variant of list_remove: nothing is removed.
list_removeNothing(list, x) == list

list_remove(list, x) ==
  LET i == CHOOSE k \in 1..Len(list) :
             list[k] = x /\ \A j \in 1..(k - 1) : list[j] # x
  IN  SubSeq(list, 1, i - 1) \o SubSeq(list, i + 1, Len(list))

assert_called == IF called THEN "ok" ELSE "AssertionError"

assert_called_once == IF call_count = 1 THEN "ok" ELSE "AssertionError"

get_no_of_calls_with_request(request) == list_count(call_requests_list, request)

\* Variant of assert_called_once_with: at least one matching call is enough.
assert_called_once_withAtLeast(request) ==
  IF get_no_of_calls_with_request(request) >= 1 THEN "ok" ELSE "AssertionError"

assert_called_once_with(request) ==
  IF get_no_of_calls_with_request(request) = 1 THEN "ok" ELSE "AssertionError"

\* Variant of assert_called_with: only the most recent request is compared.
assert_called_withLast(request) ==
  IF call_requests_list # <<>>
       /\ call_requests_list[Len(call_requests_list)] = request
    THEN "ok" ELSE "AssertionError"

assert_called_with(request) ==
  IF get_no_of_calls_with_request(request) > 0 THEN "ok" ELSE "AssertionError"

\* assert_has_calls, any_order=True: lines 117-124.
RECURSIVE has_calls_any_order(_, _)
has_calls_any_order(requests, remaining_requests) ==
  IF requests = <<>>
    THEN "ok"
    ELSE IF list_contains(remaining_requests, Head(requests))
      THEN has_calls_any_order(Tail(requests),
                               list_remove(remaining_requests, Head(requests)))
      ELSE "AssertionError"

\* assert_has_calls, any_order=False: lines 125-137.  actual is the part of
\* call_requests_list the loop has not visited; requests[matched_request_count]
\* (0-based) raises IndexError when the index is not below len(requests).
RECURSIVE has_calls_in_order(_, _, _)
has_calls_in_order(requests, actual, matched_request_count) ==
  IF actual = <<>>
    THEN IF matched_request_count # Len(requests) THEN "AssertionError" ELSE "ok"
    ELSE IF matched_request_count >= Len(requests)
      THEN "IndexError"
      ELSE IF requests[matched_request_count + 1] = Head(actual)
        THEN IF matched_request_count + 1 = Len(requests)
               THEN "ok"
               ELSE has_calls_in_order(requests, Tail(actual),
                                       matched_request_count + 1)
        ELSE has_calls_in_order(requests, Tail(actual), matched_request_count)

assert_has_calls(requests, any_order) ==
  IF any_order
    THEN has_calls_any_order(requests, call_requests_list)
    ELSE has_calls_in_order(requests, call_requests_list, 0)

\* Variant of request_matches: one matching pair is enough.
request_matchesAny(actual_request, kwargs) ==
  \E kv \in kwargs : hasattr(actual_request, kv[1]) /\ getattr(actual_request, kv[1]) = kv[2]

request_matches(actual_request, kwargs) ==
  \A kv \in kwargs : hasattr(actual_request, kv[1]) /\ getattr(actual_request, kv[1]) = kv[2]

get_no_of_calls_with_properties(kwargs) ==
  Cardinality({i \in 1..Len(call_requests_list) :
                 request_matches(call_requests_list[i], kwargs)})

assert_called_once_with_properties(kwargs) ==
  IF get_no_of_calls_with_properties(kwargs) = 1 THEN "ok" ELSE "AssertionError"

assert_called_with_properties(kwargs) ==
  IF get_no_of_calls_with_properties(kwargs) > 0 THEN "ok" ELSE "AssertionError"

\* assert_has_calls_with_properties, any_order=True: lines 167-182.
RECURSIVE has_calls_with_properties_any_order(_, _)
has_calls_with_properties_any_order(calls_, remaining_requests) ==
  IF calls_ = <<>>
    THEN "ok"
    ELSE LET matching == {i \in 1..Len(remaining_requests) :
                            request_matches(remaining_requests[i], Head(calls_))}
         IN  IF matching # {}
               THEN LET first == CHOOSE i \in matching : \A j \in matching : i <= j
                    IN  has_calls_with_properties_any_order(Tail(calls_),
                          list_remove(remaining_requests, remaining_requests[first]))
               ELSE "AssertionError"

\* assert_has_calls_with_properties, any_order=False: lines 183-195.
RECURSIVE has_calls_with_properties_in_order(_, _, _)
has_calls_with_properties_in_order(calls_, actual, matched_call_count) ==
  IF actual = <<>>
    THEN IF matched_call_count # Len(calls_) THEN "AssertionError" ELSE "ok"
    ELSE IF matched_call_count >= Len(calls_)
      THEN "IndexError"
      ELSE IF request_matches(Head(actual), calls_[matched_call_count + 1])
        THEN IF matched_call_count + 1 = Len(calls_)
               THEN "ok"
               ELSE has_calls_with_properties_in_order(calls_, Tail(actual),
                                                       matched_call_count + 1)
        ELSE has_calls_with_properties_in_order(calls_, Tail(actual),
                                                matched_call_count)

assert_has_calls_with_properties(calls_, any_order) ==
  IF any_order
    THEN has_calls_with_properties_any_order(calls_, call_requests_list)
    ELSE has_calls_with_properties_in_order(calls_, call_requests_list, 0)

----
\* The assertion model: a running session with some recorded history, on which
\* the caller makes the last of its MaxCalls public calls, an assertion.  The
\* call reads the history and changes nothing; `last` records the call, its
\* arguments and its outcome.

\* The messages of a history: the start message, or a request's transaction.
HistoryMessages ==
  {from_log_entry(ReadyLine)}
    \cup {[message |-> <<"request">>, transaction |-> r] : r \in Requests}

Histories == UNION {[1..n -> HistoryMessages] : n \in 0..MaxHistory}

ExpectedRequests == UNION {[1..n -> Requests] : n \in 0..MaxExpected}

ExpectedCalls == UNION {[1..n -> PropertySets] : n \in 0..MaxExpected}

AssertInit ==
  /\ use_docker = TRUE
  /\ server = "up"
  /\ stdout = <<>>
  /\ log_file = <<>>
  /\ file_exists = FALSE
  /\ emitted = 0
  /\ log_messages \in Histories
  /\ event_queue = <<>>
  /\ stop_event = FALSE
  /\ log_streaming_thread = "docker_loop"
  /\ pending = <<>>
  /\ cur = NoMsg
  /\ ppc = "idle"
  /\ observer = "none"
  /\ snapshot = 0
  /\ obs_events = 0
  /\ read_len = 0
  /\ fpc = "idle"
  /\ ret = "user"
  /\ expected_event = ""
  /\ expired = FALSE
  /\ event = None
  /\ last = [op |-> "start", arg |-> "", outcome |-> "ok"]
  /\ calls = MaxCalls - 1
  /\ reset_done = FALSE

\* An assertion call returns or raises; nothing but `last` changes.
AssertReturn(op, arg, outcome) ==
  /\ calls' = calls + 1
  /\ last' = [op |-> op, arg |-> arg, outcome |-> outcome]
  /\ UNCHANGED <<use_docker, ext, sess, proc, obs, fpc, ret, expected_event,
                 expired, event, reset_done>>

CallAssertNotCalled ==
  /\ fpc = "idle"
  /\ calls < MaxCalls
  /\ AssertReturn("assert_not_called", <<>>, assert_not_called)

CallAssertCalled ==
  /\ fpc = "idle"
  /\ calls < MaxCalls
  /\ AssertReturn("assert_called", <<>>, assert_called)

CallAssertCalledOnce ==
  /\ fpc = "idle"
  /\ calls < MaxCalls
  /\ AssertReturn("assert_called_once", <<>>, assert_called_once)

CallAssertCalledOnceWith ==
  /\ fpc = "idle"
  /\ calls < MaxCalls
  /\ \E r \in Requests :
     AssertReturn("assert_called_once_with", <<r>>, assert_called_once_with(r))

CallAssertCalledWith ==
  /\ fpc = "idle"
  /\ calls < MaxCalls
  /\ \E r \in Requests :
     AssertReturn("assert_called_with", <<r>>, assert_called_with(r))

\* Variant of CallAssertHasCalls: with any_order=True the matched requests are
\* removed from the history itself instead of from a copy of the request list.
CallAssertHasCallsInPlace ==
  /\ fpc = "idle"
  /\ calls < MaxCalls
  /\ \E requests \in ExpectedRequests, any_order \in BOOLEAN :
       /\ calls' = calls + 1
       /\ last' = [op |-> "assert_has_calls", arg |-> <<requests, any_order>>,
                   outcome |-> assert_has_calls(requests, any_order)]
       /\ log_messages' =
            IF any_order
              THEN SelectSeq(log_messages,
                             LAMBDA m : ~list_contains(requests, m.transaction))
              ELSE log_messages
  /\ UNCHANGED <<use_docker, ext, event_queue, stop_event, log_streaming_thread,
                 proc, obs, fpc, ret, expected_event, expired, event, reset_done>>

CallAssertHasCalls ==
  /\ fpc = "idle"
  /\ calls < MaxCalls
  /\ \E requests \in ExpectedRequests, any_order \in BOOLEAN :
     AssertReturn("assert_has_calls", <<requests, any_order>>,
     assert_has_calls(requests, any_order))

CallAssertCalledOnceWithProperties ==
  /\ fpc = "idle"
  /\ calls < MaxCalls
  /\ \E kwargs \in PropertySets :
     AssertReturn("assert_called_once_with_properties", <<kwargs>>,
     assert_called_once_with_properties(kwargs))

CallAssertCalledWithProperties ==
  /\ fpc = "idle"
  /\ calls < MaxCalls
  /\ \E kwargs \in PropertySets :
     AssertReturn("assert_called_with_properties", <<kwargs>>,
     assert_called_with_properties(kwargs))

CallAssertHasCallsWithProperties ==
  /\ fpc = "idle"
  /\ calls < MaxCalls
  /\ \E calls_ \in ExpectedCalls, any_order \in BOOLEAN :
     AssertReturn("assert_has_calls_with_properties", <<calls_, any_order>>,
     assert_has_calls_with_properties(calls_, any_order))

\* The query properties (assertion.py lines 68-89, server.py lines 388-406):
\* the value read is kept as the argument of the call.
CallCallCount ==
  /\ fpc = "idle"
  /\ calls < MaxCalls
  /\ AssertReturn("call_count", <<call_count>>, "ok")

CallCalled ==
  /\ fpc = "idle"
  /\ calls < MaxCalls
  /\ AssertReturn("called", <<called>>, "ok")

CallCallRequest ==
  /\ fpc = "idle"
  /\ calls < MaxCalls
  /\ AssertReturn("call_request", <<call_request>>, "ok")

CallCallRequestsList ==
  /\ fpc = "idle"
  /\ calls < MaxCalls
  /\ AssertReturn("call_requests_list", <<call_requests_list>>, "ok")

AssertNext ==
  \/ CallAssertNotCalled
  \/ CallAssertCalled
  \/ CallAssertCalledOnce
  \/ CallAssertCalledOnceWith
  \/ CallAssertCalledWith
  \/ CallAssertHasCalls
  \/ CallAssertCalledOnceWithProperties
  \/ CallAssertCalledWithProperties
  \/ CallAssertHasCallsWithProperties
  \/ CallCallCount
  \/ CallCalled
  \/ CallCallRequest
  \/ CallCallRequestsList

AssertSpec == AssertInit /\ [][AssertNext]_vars

----
\* Parsing of log entries (src/mockoon/resources).  A JSON value is a record
\* [t |-> its JSON type, v |-> its payload]; an object's payload is a function
\* from its keys to JSON values, a list's payload a sequence.  The domain
\* values the parsers build have the same shape, with the class name as type.
MaxPairs == 2

JStr(s) == [t |-> "str", v |-> s]

JInt(n) == [t |-> "int", v |-> n]

JBool(b) == [t |-> "bool", v |-> b]

JNull == [t |-> "null", v |-> None]

JList(l) == [t |-> "list", v |-> l]

JDict(d) == [t |-> "dict", v |-> d]

\* The two ways a call ends.
Returns(value) == [error |-> None, value |-> value]

Raises(error) == [error |-> error, value |-> JNull]

\* d with key k removed (del d[k]), and d[k] = v.
dict_del(d, k) == [x \in DOMAIN d \ {k} |-> d[x]]

\* Variant of dict_set: a key that is already present keeps its value.
dict_setIfAbsent(d, k, v) ==
  [x \in DOMAIN d \cup {k} |-> IF x \in DOMAIN d THEN d[x] ELSE v]

dict_set(d, k, v) == [x \in DOMAIN d \cup {k} |-> IF x = k THEN v ELSE d[x]]

RECURSIVE fold_items(_, _)
fold_items(input_list, output_dict) ==
  IF input_list = <<>>
    THEN output_dict
    ELSE LET item == Head(input_list)
         IN  fold_items(Tail(input_list),
               IF "key" \in DOMAIN item /\ "value" \in DOMAIN item
                 THEN dict_set(output_dict, item["key"], item["value"])
                 ELSE output_dict)

list_of_dicts_to_dict(input_list) == fold_items(input_list, <<>>)

\* The call on whatever value the log entry holds under the key: a string or
\* an object is iterated too (its characters, its keys: no item has both
\* "key" and "value", so the result is empty); any other value cannot be
\* iterated.
fold_value(j) ==
  IF j.t = "list" THEN Returns(JDict(list_of_dicts_to_dict(j.v)))
  ELSE IF j.t \in {"str", "dict"} THEN Returns(JDict(<<>>))
  ELSE Raises("TypeError")

\* cls(**kwargs): the keyword arguments must be fields of the dataclass and
\* cover those without a default; a field with a default takes it.
dataclass(cls, required, defaults, kwargs) ==
  IF /\ DOMAIN kwargs \subseteq required \cup DOMAIN defaults
     /\ required \subseteq DOMAIN kwargs
    THEN Returns([t |-> cls,
                 v |-> [f \in required \cup DOMAIN defaults |->
                          IF f \in DOMAIN kwargs THEN kwargs[f] ELSE defaults[f]]])
    ELSE Raises("TypeError")

RequestFields8 ==
  {"body", "headers", "method", "params", "query", "queryParams", "route", "urlPath"}

Request_from_log_entry(log_entry) ==
  IF log_entry.t # "dict" THEN Raises("TypeError")
  ELSE IF "headers" \notin DOMAIN log_entry.v THEN Raises("KeyError")
  ELSE LET headers == fold_value(log_entry.v["headers"])
       IN
  IF headers.error # None THEN headers
  ELSE IF "params" \notin DOMAIN log_entry.v THEN Raises("KeyError")
  ELSE LET params == fold_value(log_entry.v["params"])
       IN
  IF params.error # None THEN params
  ELSE IF "queryParams" \notin DOMAIN log_entry.v THEN Raises("KeyError")
  ELSE LET query_params == fold_value(log_entry.v["queryParams"])
       IN
  IF query_params.error # None THEN query_params
  ELSE dataclass("Request", RequestFields8, <<>>,
         dict_set(dict_set(dict_set(log_entry.v, "headers", headers.value),
                           "params", params.value),
                  "queryParams", query_params.value))

Response_from_log_entry(log_entry) ==
  IF log_entry.t # "dict" THEN Raises("TypeError")
  ELSE IF "headers" \notin DOMAIN log_entry.v THEN Raises("KeyError")
  ELSE LET headers == fold_value(log_entry.v["headers"])
       IN
  IF headers.error # None THEN headers
  ELSE dataclass("Response", {"body", "headers", "statusCode"},
         [statusMessage |-> JNull],
         dict_set(log_entry.v, "headers", headers.value))

\* Variant of fill_absent: an absent key stays absent.
fill_absentNever(d, k) == d

\* if k not in log_entry: log_entry[k] = None
fill_absent(d, k) == IF k \in DOMAIN d THEN d ELSE dict_set(d, k, JNull)

Transaction_from_log_entry(log_entry) ==
  IF log_entry.t # "dict" THEN Raises("TypeError")
  ELSE IF "request" \notin DOMAIN log_entry.v THEN Raises("KeyError")
  ELSE LET request == Request_from_log_entry(log_entry.v["request"])
       IN
  IF request.error # None THEN request
  ELSE IF "response" \notin DOMAIN log_entry.v THEN Raises("KeyError")
  ELSE LET response == Response_from_log_entry(log_entry.v["response"])
       IN
  IF response.error # None THEN response
  ELSE dataclass("Transaction",
         {"proxied", "request", "response", "routeResponseUUID", "routeUUID"},
         <<>>,
         dict_set(dict_set(fill_absent(fill_absent(log_entry.v, "routeResponseUUID"),
                                       "routeUUID"),
                           "request", request.value),
                  "response", response.value))

\* `"transaction" in log_entry` is a substring test on a string and a
\* membership test on a list, both false here; the assignment of mockName then
\* fails on them.
LogMessage_from_log_entry(log_entry) ==
  IF log_entry.t # "dict" THEN Raises("TypeError")
  ELSE LET _transaction == IF "transaction" \in DOMAIN log_entry.v
                             THEN Transaction_from_log_entry(log_entry.v["transaction"])
                             ELSE Returns(JNull)
       IN
  IF _transaction.error # None THEN _transaction
  ELSE dataclass("LogMessage",
         {"level", "message", "timestamp", "mockName", "transaction"}, <<>>,
         dict_set(fill_absent(log_entry.v, "mockName"),
                  "transaction", _transaction.value))

\* Inputs: the entries Mockoon logs (as in tests/test_mockoon.py) and entries
\* that deviate from them in one place.
Pairs ==
  {[key |-> k, value |-> w] : k \in {"a", "b"}, w \in {"1", "2"}}
    \cup {[key |-> "a"], [value |-> "1"]}

PairLists == UNION {[1..n -> Pairs] : n \in 0..MaxPairs}

Headers == JList(<<[key |-> "a", value |-> "1"]>>)

RequestEntry ==
  JDict([body |-> JStr(""), headers |-> Headers, method |-> JStr("GET"),
         params |-> JList(<<>>), query |-> JStr(""), queryParams |-> JList(<<>>),
         route |-> JStr("/r"), urlPath |-> JStr("/r")])

ResponseEntry ==
  JDict([body |-> JStr("{}"), headers |-> Headers, statusCode |-> JInt(200),
         statusMessage |-> JStr("OK")])

TransactionEntry ==
  JDict([proxied |-> JBool(FALSE), request |-> RequestEntry,
         response |-> ResponseEntry, routeResponseUUID |-> JStr("u1"),
         routeUUID |-> JStr("u2")])

LogEntry ==
  JDict([level |-> JStr("info"), message |-> JStr("GET /r | 200"),
         mockName |-> JStr("mock"), timestamp |-> JStr("t"),
         transaction |-> TransactionEntry])

Mistyped(j) == {w \in {JStr("x"), JInt(7)} : w.t # j.t}

Deviations(j, optional) ==
  {j, JStr("x"), JDict(dict_set(j.v, "extra", JStr("x")))}
    \cup {JDict([k \in DOMAIN j.v \ S |-> j.v[k]]) : S \in SUBSET optional}
    \cup {JDict(dict_del(j.v, k)) : k \in DOMAIN j.v}
    \cup {JDict(dict_set(j.v, k, w)) : <<k, w>> \in
            UNION {{k} \X Mistyped(j.v[k]) : k \in DOMAIN j.v}}

RequestEntries == Deviations(RequestEntry, {})

ResponseEntries == Deviations(ResponseEntry, {"statusMessage"})

TransactionEntries ==
  Deviations(TransactionEntry, {"routeResponseUUID", "routeUUID"})
    \cup {JDict(dict_set(TransactionEntry.v, "request", r)) : r \in RequestEntries}
    \cup {JDict(dict_set(TransactionEntry.v, "response", r)) : r \in ResponseEntries}

LogEntries ==
  Deviations(LogEntry, {"mockName"})
    \cup Deviations(JDict(dict_del(LogEntry.v, "transaction")), {"mockName"})
    \cup {JDict(dict_set(LogEntry.v, "transaction", x)) : x \in TransactionEntries}
    \cup {JDict([k \in {"level", "message", "timestamp", "transaction"} |->
                  IF k = "transaction" THEN x ELSE LogEntry.v[k]]) :
            x \in Deviations(TransactionEntry, {"routeResponseUUID", "routeUUID"})}

ParseInputs ==
  {JList(l) : l \in PairLists} \cup RequestEntries \cup ResponseEntries
    \cup TransactionEntries \cup LogEntries

\* json.loads has returned the entry; one of the parsers is applied to it.
ParseInit ==
  /\ use_docker = TRUE
  /\ server = "up"
  /\ stdout = <<>>
  /\ log_file = <<>>
  /\ file_exists = FALSE
  /\ emitted = 0
  /\ log_messages = <<>>
  /\ event_queue = <<>>
  /\ stop_event = FALSE
  /\ log_streaming_thread = "docker_loop"
  /\ pending = <<>>
  /\ cur = NoMsg
  /\ ppc = "idle"
  /\ observer = "none"
  /\ snapshot = 0
  /\ obs_events = 0
  /\ read_len = 0
  /\ fpc = "wait_check"
  /\ ret = "start"
  /\ expected_event = "ready"
  /\ expired = FALSE
  /\ event = None
  /\ \E j \in ParseInputs : last = [op |-> "json.loads", arg |-> j, outcome |-> Returns(j)]
  /\ calls = 1
  /\ reset_done = FALSE

ParseReturn(op, outcome) ==
  /\ last.op = "json.loads"
  /\ last' = [op |-> op, arg |-> last.arg, outcome |-> outcome]
  /\ UNCHANGED <<use_docker, ext, sess, proc, obs, fpc, ret, expected_event,
                 expired, event, calls, reset_done>>

CallListOfDictsToDict ==
  /\ last.arg \in {JList(l) : l \in PairLists}
  /\ ParseReturn("list_of_dicts_to_dict", fold_value(last.arg))

CallRequestFromLogEntry ==
  /\ last.arg \in RequestEntries
  /\ ParseReturn("Request.from_log_entry", Request_from_log_entry(last.arg))

CallResponseFromLogEntry ==
  /\ last.arg \in ResponseEntries
  /\ ParseReturn("Response.from_log_entry", Response_from_log_entry(last.arg))

CallTransactionFromLogEntry ==
  /\ last.arg \in TransactionEntries
  /\ ParseReturn("Transaction.from_log_entry", Transaction_from_log_entry(last.arg))

CallLogMessageFromLogEntry ==
  /\ last.arg \in LogEntries
  /\ ParseReturn("LogMessage.from_log_entry", LogMessage_from_log_entry(last.arg))

ParseNext ==
  \/ CallListOfDictsToDict
  \/ CallRequestFromLogEntry
  \/ CallResponseFromLogEntry
  \/ CallTransactionFromLogEntry
  \/ CallLogMessageFromLogEntry

ParseSpec == ParseInit /\ [][ParseNext]_vars

----
\* C1: when wait_for_route_hit("r") has returned successfully and
\* reset_transactions() was not called, the history holds a transaction whose
\* request route is "/r".
C1_RouteHitInHistory ==
  (fpc = "idle" /\ last = [op |-> "wait", arg |-> "/r", outcome |-> "ok"] /\ ~reset_done)
    => HasTransaction("/r")

\* C2: when start() has failed after launching the external process, the
\* background thread is not alive and the external process is stopped.
C2_FailedStartTornDown ==
  StartFailed => (~is_alive(log_streaming_thread) /\ server = "down")

\* C3: after any start() that returned normally, on a fresh or on an already
\* started session, the stop signal is clear, so that the new thread keeps
\* processing log lines.
C3_RestartKeepsProcessing ==
  StartReturnedOk => ~stop_event

\* C4: when start() has returned normally the thread has been started and the
\* log message carrying the readiness marker is in the history.
C4_ReadyInHistoryAtStart ==
  StartReturnedOk => (log_streaming_thread # None /\ HasReadyMessage)

\* C5: a log line that fails to parse never ends the background processing:
\* the thread ends only on the stop signal or at end-of-stream, and the
\* observer that delivers modification callbacks is never killed.
C5_ParseErrorNeverKills ==
  /\ log_streaming_thread = "done" => (stop_event \/ server = "down")
  /\ observer # "dead"

\* C6: when stop() has returned the background thread (and its observer) is
\* not alive, and while the thread is not alive the history changes only by
\* the foreground reset and the event queue only by the foreground wait.
C6_StopJoinsThread ==
  /\ []((fpc = "idle" /\ last.op = "stop")
          => (~is_alive(log_streaming_thread) /\ observer # "running" /\ ppc = "idle"))
  /\ [][(~is_alive(log_streaming_thread) /\ ~is_alive(log_streaming_thread'))
          => /\ log_messages' # log_messages => (fpc = "idle" /\ log_messages' = <<>>)
             /\ event_queue' # event_queue => fpc = "wait_get"]_vars

C6_Witness ==
  /\ fpc = "idle"
  /\ last.op = "stop"
  /\ log_streaming_thread = "done"
  /\ stop_event
  /\ log_messages # <<>>

\* C7: stop() on a session whose thread is not running (never started, or
\* already stopped) is never blocked, returns normally and leaves the history
\* and the event queue unchanged; a stop() right after a stop() changes nothing
\* of the session.
C7_StopIsSafe ==
  /\ []((fpc \in StopSteps /\ ret = "user" /\ ~is_alive(log_streaming_thread))
          => ENABLED (StopCleanup \/ StopSet \/ StopJoin))
  /\ [][(fpc \in StopSteps /\ ret = "user" /\ ~is_alive(log_streaming_thread))
          => /\ UNCHANGED <<log_messages, event_queue>>
             /\ fpc' \in StopSteps \cup {"idle"}
             /\ fpc' = "idle" => last' = [op |-> "stop", arg |-> "", outcome |-> "ok"]]_vars
  /\ [][(fpc \in StopSteps /\ ret = "user" /\ last.op = "stop")
          => UNCHANGED <<log_messages, event_queue, stop_event, log_streaming_thread,
                         server, observer>>]_vars

C7_Witness ==
  /\ fpc = "stop_join"
  /\ ret = "user"
  /\ last.op = "stop"
  /\ event_queue # <<>>
  /\ log_messages # <<>>

\* C8: a wait that fails while the background thread is alive fails with the
\* timeout error.
C8_WaitFailsWithTimeout ==
  (fpc = "idle" /\ last.op = "wait" /\ last.outcome # "ok" /\ is_alive(log_streaming_thread))
    => last.outcome = "timeout"

\* C9: a wait that ends at a moment when there is no live background thread
\* (none was ever started, or it is no longer alive) ends with the
\* processor-not-running error.
C9_WaitWithoutThreadFails ==
  [][(fpc \in {"wait_check", "wait_get"} /\ ret = "user" /\ fpc' = "idle"
        /\ ~is_alive(log_streaming_thread))
       => last'.outcome = "not_alive"]_vars

\* C10: the event queue is consumed in FIFO order and nothing is put back: it
\* changes only by an append at its tail or by the wait removing its head, and
\* the wait returns successfully exactly when the event it removes equals the
\* awaited label.
C10_FifoNoRequeue ==
  [][/\ event_queue' # event_queue
          => \/ \E e \in {"ready", "/r"} : event_queue' = Append(event_queue, e)
             \/ fpc = "wait_get" /\ event_queue # <<>> /\ event_queue' = Tail(event_queue)
     /\ (fpc = "wait_get" /\ fpc' # "wait_get")
          => /\ (fpc' = "idle" /\ last'.outcome = "ok")
                  <=> (~expired /\ event_queue # <<>> /\ Head(event_queue) = expected_event)
             /\ (~expired /\ event_queue # <<>>) => event_queue' = Tail(event_queue)]_vars

C10_Witness ==
  /\ fpc = "wait_check"
  /\ event \notin {None, expected_event}
  /\ event_queue # <<>>
  /\ Head(event_queue) = expected_event

----
\* The steps of _wait_for_event.
WaitSteps == {"wait_check", "wait_get"}

----
\* C12 as stated: whenever the last call was reset_transactions() and the caller
\* makes its next call, assert_not_called() made now succeeds, whatever the
\* background processor did in between.
C12_ResetThenNotCalled ==
  (fpc = "idle" /\ last.op = "reset") => assert_not_called = "ok"

\* C12, amended: reset_transactions() leaves a history on which
\* assert_not_called() succeeds, for any prior history, and after the reset the
\* assertion keeps succeeding until the background processor appends a message
\* that carries a transaction.
C12_ResetThenNotCalledUntilAppend ==
  /\ [][(last' # last /\ last'.op = "reset") => assert_not_called' = "ok"]_vars
  /\ [][(fpc = "idle" /\ last.op = "reset" /\ fpc' = "idle" /\ last' = last
            /\ assert_not_called = "ok" /\ assert_not_called' # "ok")
          => /\ ppc = "append" /\ cur.transaction # None
             /\ log_messages' = Append(log_messages, cur)]_vars

\* The server is up and its thread alive; a route hit was recorded (its event is
\* still queued) and then cleared by the reset; the assertion succeeds.
C12_Witness ==
  /\ fpc = "idle" /\ last.op = "reset"
  /\ server = "up" /\ is_alive(log_streaming_thread) /\ ppc = "idle"
  /\ \E i \in 1..Len(event_queue) : event_queue[i] = "/r"
  /\ assert_not_called = "ok"

----
\* In the file variant the log file holds every line the running instance wrote:
\* no request has reached the instance while no line with a transaction is in it.
NoTrafficYet ==
  /\ ~use_docker
  /\ \A i \in 1..Len(log_file) : log_file[i].route = None

\* C13: the history is empty at the start of every session: when start() has
\* returned normally and no request has reached the new instance yet, the
\* transaction count is 0 and assert_not_called() succeeds, also on an object
\* that was started before.  (Stated on the file variant, where the requests
\* that reached the new instance can be read off its log file.)
C13_HistoryEmptyAtStart ==
  (StartReturnedOk /\ NoTrafficYet /\ ~reset_done)
    => (call_count = 0 /\ assert_not_called = "ok")

----
\* C14: the history is append-only in log-arrival order.  Every step that
\* changes it is either the background processor appending the message it is
\* processing at the end, or the caller's reset_transactions() emptying it; so
\* between two resets an earlier history is a prefix of a later one.  A reset
\* made while a line is between its parsing and its append loses nothing: the
\* append then lands on the emptied history.  (The append of line 210 on a list
\* object the reset has just replaced leaves the state of append-then-reset.)
C14_AppendOnlyHistory ==
  [][log_messages' # log_messages
      => \/ /\ ppc = "append"
            /\ log_messages' = Append(log_messages, cur)
            /\ UNCHANGED <<fpc, last>>
         \/ /\ fpc = "idle" /\ calls' = calls + 1 /\ last'.op = "reset"
            /\ log_messages' = <<>>
            /\ UNCHANGED ppc]_vars

\* A reset was made, and afterwards the processor appended a request's message
\* to a history that already held the start message.
C14_Witness ==
  /\ reset_done /\ last.op # "reset"
  /\ Len(log_messages) = 2
  /\ HasMarker(log_messages[1].message)
  /\ log_messages[2].transaction = "/r"

----
\* The file variant at rest: the watch is registered, every change of the file
\* has been polled, every notification handled, and no line is in processing.
FileQuiescent ==
  /\ ~use_docker
  /\ log_streaming_thread = "watch"
  /\ observer = "running"
  /\ snapshot = Len(log_file)
  /\ obs_events = 0
  /\ ppc = "idle"

\* The well-formed lines of the log file.
WellFormedLines == {i \in 1..Len(log_file) : Parses(log_file[i])}

\* C15: file-backed source, no line is missed.  In the first session of an
\* object, once the file variant is at rest, every well-formed line of the log
\* file has been delivered to the processor, which appended one message for it.
C15_NoLineMissed ==
  (calls = 1 /\ FileQuiescent) => Len(log_messages) >= Cardinality(WellFormedLines)

----
\* C16: file-backed source, already-seen lines are not reprocessed; in
\* particular a modification notification handled when the file has no more
\* lines than at the handler's previous read starts no processing: it adds no
\* message to the history and puts no event.
C16_NoReprocessing ==
  [][(obs_events' = obs_events - 1 /\ observer = "running"
        /\ Len(log_file) = read_len)
      => /\ ppc' = "idle"
         /\ UNCHANGED <<log_messages, event_queue, cur>>]_vars

----
\* Subsequence and sub-multiset of request lists, stated without the loops of
\* the assertions.
IsSubsequence(expected, actual) ==
  \E f \in [1..Len(expected) -> 1..Len(actual)] :
    /\ \A i, j \in 1..Len(expected) : i < j => f[i] < f[j]
    /\ \A i \in 1..Len(expected) : actual[f[i]] = expected[i]

IsMatchingSubsequence(expected, actual) ==
  \E f \in [1..Len(expected) -> 1..Len(actual)] :
    /\ \A i, j \in 1..Len(expected) : i < j => f[i] < f[j]
    /\ \A i \in 1..Len(expected) : request_matches(actual[f[i]], expected[i])

IsSubMultiset(expected, actual) ==
  \A r \in Requests : list_count(expected, r) <= list_count(actual, r)

\* The reorderings of a list.
Reorderings(list) ==
  {[i \in 1..Len(list) |-> list[p[i]]] :
     p \in {q \in [1..Len(list) -> 1..Len(list)] :
              \A i, j \in 1..Len(list) : q[i] = q[j] => i = j}}

AssertionOutcomes == {"ok", "AssertionError"}

\* C17: with any_order=False, assert_has_calls and
\* assert_has_calls_with_properties return normally if and only if the expected
\* list is a subsequence of the recorded requests (increasing positions,
\* contiguity not required), and otherwise fail with an assertion error.
C17_InOrderIffSubsequence ==
  /\ (last.op = "assert_has_calls" /\ ~last.arg[2])
       => last.outcome = IF IsSubsequence(last.arg[1], call_requests_list)
                           THEN "ok" ELSE "AssertionError"
  /\ (last.op = "assert_has_calls_with_properties" /\ ~last.arg[2])
       => last.outcome = IF IsMatchingSubsequence(last.arg[1], call_requests_list)
                           THEN "ok" ELSE "AssertionError"

\* C18: with any_order=True, assert_has_calls returns normally if and only if
\* every request value occurs in the expected list at most as often as in the
\* recorded requests, otherwise it fails with an assertion error; the outcome
\* is the same for every reordering of the expected list.
C18_AnyOrderIffSubMultiset ==
  (last.op = "assert_has_calls" /\ last.arg[2])
    => /\ last.outcome = IF IsSubMultiset(last.arg[1], call_requests_list)
                           THEN "ok" ELSE "AssertionError"
       /\ \A requests \in Reorderings(last.arg[1]) :
            assert_has_calls(requests, TRUE) = last.outcome

\* Two different requests were expected in the order opposite to the one they
\* were recorded in, and the call returned normally.
C18_Witness ==
  /\ last.op = "assert_has_calls" /\ last.arg[2]
  /\ Len(last.arg[1]) = 2 /\ last.arg[1][1] # last.arg[1][2]
  /\ ~IsSubsequence(last.arg[1], call_requests_list)
  /\ last.outcome = "ok"

\* C19: every assertion primitive, on every history and with every argument,
\* returns normally or fails with an assertion error, never with another
\* error; in particular the two in-order assertions given an empty expected
\* list have the same outcome on an empty and on a non-empty history.
C19_OnlyAssertionErrors ==
  /\ last.op # "start" => last.outcome \in AssertionOutcomes
  /\ (last.op \in {"assert_has_calls", "assert_has_calls_with_properties"}
        /\ ~last.arg[2] /\ last.arg[1] = <<>>)
       => last.outcome = "ok"

\* C20: assert_called_once_with(r) returns normally if and only if exactly one
\* recorded message carries a request equal to r, whatever else was recorded,
\* and otherwise fails with an assertion error.
C20_OnceWithIffExactlyOne ==
  last.op = "assert_called_once_with"
    => last.outcome =
         IF Cardinality({i \in 1..Len(log_messages) :
                           log_messages[i].transaction = last.arg[1]}) = 1
           THEN "ok" ELSE "AssertionError"

\* The request was recorded once among two other requests; the call returned.
C20_Witness ==
  /\ last.op = "assert_called_once_with"
  /\ call_count = 3
  /\ list_count(call_requests_list, last.arg[1]) = 1
  /\ last.outcome = "ok"

----
----
\* The recorded messages whose request has every named field with the given
\* value, counted on the history itself.
PropertyMatchCount(kwargs) ==
  Cardinality({i \in 1..Len(log_messages) :
                 /\ log_messages[i].transaction # None
                 /\ \A kv \in kwargs :
                      /\ kv[1] \in RequestFields
                      /\ getattr(log_messages[i].transaction, kv[1]) = kv[2]})

----
\* The positions of the history whose message carries a transaction.
TransactionPositions == {i \in 1..Len(log_messages) : log_messages[i].transaction # None}

\* The k-th of these positions, in history order.
TransactionPosition(k) ==
  CHOOSE i \in TransactionPositions :
    Cardinality({j \in TransactionPositions : j <= i}) = k

\* C23: only log messages that carry a transaction count as calls.  The call
\* count is the number of such messages, the request list is their requests in
\* history order, the last request is the request of the last of them (None if
\* there is none); assert_not_called succeeds iff the count is 0, assert_called
\* iff it is at least 1, assert_called_once iff it is exactly 1.
C23_OnlyTransactionsCount ==
  /\ call_count = Cardinality(TransactionPositions)
  /\ called <=> TransactionPositions # {}
  /\ Len(call_requests_list) = Cardinality(TransactionPositions)
  /\ \A k \in 1..Len(call_requests_list) :
       call_requests_list[k] = log_messages[TransactionPosition(k)].transaction
  /\ call_request = IF TransactionPositions = {}
                      THEN None
                      ELSE log_messages[TransactionPosition(
                             Cardinality(TransactionPositions))].transaction
  /\ last.op = "assert_not_called"
       => last.outcome = IF Cardinality(TransactionPositions) = 0
                           THEN "ok" ELSE "AssertionError"
  /\ last.op = "assert_called"
       => last.outcome = IF Cardinality(TransactionPositions) >= 1
                           THEN "ok" ELSE "AssertionError"
  /\ last.op = "assert_called_once"
       => last.outcome = IF Cardinality(TransactionPositions) = 1
                           THEN "ok" ELSE "AssertionError"

\* The history holds the start message twice and one request between them;
\* assert_called_once returned normally.
C23_Witness ==
  /\ last.op = "assert_called_once"
  /\ Len(log_messages) = 3
  /\ HasMarker(log_messages[1].message)
  /\ log_messages[2].transaction # None
  /\ HasMarker(log_messages[3].message)
  /\ last.outcome = "ok"

----
\* C24: starting the log processor while one is running is a no-op.  A
\* start_logging() made while the thread is alive returns normally and leaves
\* the session as it is; and no step of a start() made while the thread is alive
\* signals that thread to stop or takes its server away.
C24_StartWhileRunningIsNoop ==
  [][/\ (fpc = "idle" /\ calls' = calls + 1 /\ last'.op = "start_logging"
           /\ is_alive(log_streaming_thread))
          => (last'.outcome = "ok" /\ UNCHANGED sess)
     /\ (fpc \in StopSteps /\ ret = "start" /\ is_alive(log_streaming_thread))
          => UNCHANGED <<stop_event, server>>]_vars

----
\* C25: stop() eventually returns.  Whenever the caller is inside stop() (called
\* directly or by start()), it eventually leaves it: the thread that was
\* signalled exits and the join returns.
C25_StopReturns == (fpc \in StopSteps) ~> (fpc \notin StopSteps)

\* A stop() called by a later start() joined a thread and returned to start().
C25_Witness ==
  /\ fpc = "launch" /\ ret = "start"
  /\ log_streaming_thread = "done"
  /\ stop_event
  /\ log_messages # <<>>

----
\* C26: each processed line is classified into zero or one events.  When a
\* line is parsed, one event labelled with its route is put if it carries a
\* transaction and nothing otherwise; the append puts nothing; the "ready"
\* event is put after the append exactly for a message with the start prefix,
\* and only for a line that carried no transaction, so that no line puts two.
C26_ZeroOrOneEventPerLine ==
  [][/\ (ppc = "idle" /\ ppc' = "append")
          => event_queue' = IF cur'.transaction # None
                              THEN Append(event_queue, cur'.transaction)
                              ELSE event_queue
     /\ (ppc = "append" /\ ppc' # "append")
          => /\ event_queue' = event_queue
             /\ ppc' = "ready" <=> HasMarker(cur.message)
     /\ (ppc = "ready" /\ ppc' # "ready")
          => /\ event_queue' = Append(event_queue, "ready")
             /\ cur.transaction = None]_vars

----
\* The positions of the well-formed pairs of a list: those with both a "key"
\* and a "value".
WellFormedPositions(l) ==
  {i \in 1..Len(l) : "key" \in DOMAIN l[i] /\ "value" \in DOMAIN l[i]}

\* C27: folding a list of pairs returns a mapping whose keys are exactly the
\* keys of the well-formed pairs and which gives every key the value of its
\* last occurrence in the list.
C27_FoldLastWins ==
  last.op = "list_of_dicts_to_dict" =>
    LET l == last.arg.v
        out == last.outcome.value.v
        wf == WellFormedPositions(l)
    IN  /\ last.outcome.error = None
        /\ DOMAIN out = {l[i]["key"] : i \in wf}
        /\ \A k \in DOMAIN out :
             \E i \in wf : /\ l[i]["key"] = k
                           /\ out[k] = l[i]["value"]
                           /\ \A j \in wf : l[j]["key"] = k => j <= i

C27_Witness ==
  /\ last.op = "list_of_dicts_to_dict"
  /\ last.arg.v = <<[key |-> "a", value |-> "1"], [key |-> "a", value |-> "2"]>>
  /\ last.outcome.value.v = [a |-> "2"]

----
\* C28: absent optional keys are tolerated.  A transaction record without
\* routeResponseUUID / routeUUID and a log record without mockName parse as
\* the same record with the key present and null: the parse does not fail for
\* the absence, and the field of the value is null.  A parsed log record has a
\* transaction that is not null exactly when the record has a transaction key.
C28_OptionalKeysTolerated ==
  /\ (last.op = "Transaction.from_log_entry" /\ last.arg.t = "dict") =>
       /\ last.outcome = Transaction_from_log_entry(
            JDict(dict_set(dict_set(last.arg.v, "routeResponseUUID",
                     IF "routeResponseUUID" \in DOMAIN last.arg.v
                       THEN last.arg.v["routeResponseUUID"] ELSE JNull),
                   "routeUUID",
                     IF "routeUUID" \in DOMAIN last.arg.v
                       THEN last.arg.v["routeUUID"] ELSE JNull)))
       /\ last.outcome.error = None =>
            \A u \in {"routeResponseUUID", "routeUUID"} \ DOMAIN last.arg.v :
              last.outcome.value.v[u] = JNull
  /\ (last.op = "LogMessage.from_log_entry" /\ last.arg.t = "dict") =>
       /\ "mockName" \notin DOMAIN last.arg.v =>
            /\ last.outcome =
                 LogMessage_from_log_entry(JDict(dict_set(last.arg.v, "mockName", JNull)))
            /\ last.outcome.error = None => last.outcome.value.v["mockName"] = JNull
       /\ last.outcome.error = None =>
            (last.outcome.value.v["transaction"] # JNull
               <=> "transaction" \in DOMAIN last.arg.v)

\* A proxied transaction, logged without the two UUIDs, in a log record
\* without mockName.
C28_Witness ==
  /\ last.op = "LogMessage.from_log_entry"
  /\ last.outcome.error = None
  /\ "mockName" \notin DOMAIN last.arg.v
  /\ last.outcome.value.v["mockName"] = JNull
  /\ "transaction" \in DOMAIN last.arg.v
  /\ DOMAIN last.arg.v["transaction"].v = {"proxied", "request", "response"}
  /\ last.outcome.value.v["transaction"].t = "Transaction"
  /\ last.outcome.value.v["transaction"].v["routeUUID"] = JNull
  /\ last.outcome.value.v["transaction"].v["routeResponseUUID"] = JNull

----
\* The declared types of the required fields, as JSON types (the three
\* mappings of a request and the headers of a response are logged as lists of
\* pairs).
RequestTypes ==
  [body |-> "str", headers |-> "list", method |-> "str", params |-> "list",
   query |-> "str", queryParams |-> "list", route |-> "str", urlPath |-> "str"]

ResponseTypes == [body |-> "str", headers |-> "list", statusCode |-> "int"]

TransactionTypes == [proxied |-> "bool", request |-> "dict", response |-> "dict"]

LogMessageTypes == [level |-> "str", message |-> "str", timestamp |-> "str"]

\* A required key is absent from the record or its value has the wrong type.
Malformed(j, types) ==
  \/ j.t # "dict"
  \/ \E k \in DOMAIN types : k \notin DOMAIN j.v \/ j.v[k].t # types[k]

MalformedTransaction(j) ==
  \/ Malformed(j, TransactionTypes)
  \/ Malformed(j.v["request"], RequestTypes)
  \/ Malformed(j.v["response"], ResponseTypes)

MalformedLogMessage(j) ==
  \/ Malformed(j, LogMessageTypes)
  \/ "transaction" \in DOMAIN j.v /\ MalformedTransaction(j.v["transaction"])

\* C29: a parse of a record in which a required key is absent or a required
\* value has the wrong type fails; no domain value is built from such a
\* record.
C29_MalformedEntryFails ==
  /\ (last.op = "Request.from_log_entry" /\ Malformed(last.arg, RequestTypes))
       => last.outcome.error # None
  /\ (last.op = "Response.from_log_entry" /\ Malformed(last.arg, ResponseTypes))
       => last.outcome.error # None
  /\ (last.op = "Transaction.from_log_entry" /\ MalformedTransaction(last.arg))
       => last.outcome.error # None
  /\ (last.op = "LogMessage.from_log_entry" /\ MalformedLogMessage(last.arg))
       => last.outcome.error # None

----
\* C30: at most one log thread of a session is alive.  start() creates and
\* starts a thread only when the thread it replaces is not alive, with its
\* observer not running and no line of it in process.
C30_AtMostOneThread ==
  [][(fpc = "thread_start" /\ fpc' # "thread_start")
       => /\ ~is_alive(log_streaming_thread)
          /\ observer # "running"
          /\ ppc = "idle"
          /\ pending = <<>>]_vars

\* The thread of a second start(), running after the first was stopped.
C30_Witness ==
  /\ fpc = "wait_check" /\ ret = "start"
  /\ is_alive(log_streaming_thread)
  /\ stop_event
  /\ log_messages # <<>>

----
\* A one-to-one assignment of the expected property sets to distinct recorded
\* requests, each request matching the property set assigned to it.
HasAssignment(calls_, requests) ==
  \E f \in [1..Len(calls_) -> 1..Len(requests)] :
    /\ \A i, j \in 1..Len(calls_) : f[i] = f[j] => i = j
    /\ \A i \in 1..Len(calls_) : request_matches(requests[f[i]], calls_[i])

\* C31: assert_has_calls_with_properties(calls, any_order=True) returns
\* normally if and only if the expected property sets can be assigned one to
\* one to distinct matching recorded requests, and fails with an assertion
\* error otherwise; every reordering of the calls list has the same outcome.
C31_AnyOrderPropertiesIffAssignment ==
  (last.op = "assert_has_calls_with_properties" /\ last.arg[2]) =>
    /\ last.outcome = IF HasAssignment(last.arg[1], call_requests_list)
                        THEN "ok" ELSE "AssertionError"
    /\ \A reordered \in Reorderings(last.arg[1]) :
         last.outcome = assert_has_calls_with_properties(reordered, TRUE)

----
\* C32: a wait_for_route_hit that begins after reset_transactions() returns
\* normally only because of a transaction recorded after the reset: when it
\* returns, a transaction with the awaited route is in the history (which
\* holds what was recorded since the last reset) or is just being appended by
\* the thread (its event is put before the append).
C32_WaitAfterResetSeesNewHit ==
  [][(/\ fpc = "wait_get" /\ ret = "user" /\ expected_event # "ready"
      /\ reset_done
      /\ fpc' = "idle" /\ last'.outcome = "ok")
       => \/ \E i \in 1..Len(log_messages) :
               log_messages[i].transaction = expected_event
          \/ ppc = "append" /\ cur.transaction = expected_event]_vars

----
\* The queries and the assertions.
ReadOnlyOps ==
  {"call_count", "called", "call_request", "call_requests_list",
   "assert_not_called", "assert_called", "assert_called_once",
   "assert_called_once_with", "assert_called_with", "assert_has_calls",
   "assert_called_once_with_properties", "assert_called_with_properties",
   "assert_has_calls_with_properties"}

\* C33: queries and assertions are read-only.  A call of a query or of an
\* assertion, whether it returns or raises, leaves the history, the event
\* queue, the stop signal and the thread as they were; what the any_order
\* matchers remove is removed from a copy.
C33_QueriesAndAssertionsReadOnly ==
  [][(calls' = calls + 1 /\ last'.op \in ReadOnlyOps)
       => UNCHANGED <<log_messages, event_queue, stop_event, log_streaming_thread>>]_vars

\* An any_order assertion that matched (and removed from its copy) every
\* recorded request has returned, and the history still holds them all.
C33_Witness ==
  /\ last.op = "assert_has_calls"
  /\ last.arg[2]
  /\ last.outcome = "ok"
  /\ call_count = MaxExpected
  /\ Len(last.arg[1]) = call_count

----
\* C34: successful waits for a route never outnumber the transactions with
\* that route the thread has processed.  Step by step: a wait_for_route_hit
\* that returns normally takes exactly one event with its label out of the
\* queue, and the number of queued events with a route label grows only by
\* one at a time, in the step in which the thread parses a line carrying a
\* transaction with that route.
C34_OneEventPerSuccessfulWait ==
  [][/\ (fpc = "wait_get" /\ ret = "user" /\ expected_event = "/r"
           /\ fpc' = "idle" /\ last'.outcome = "ok")
          => /\ event_queue # <<>> /\ Head(event_queue) = "/r"
             /\ event_queue' = Tail(event_queue)
             /\ list_count(event_queue', "/r") = list_count(event_queue, "/r") - 1
     /\ list_count(event_queue', "/r") > list_count(event_queue, "/r")
          => /\ list_count(event_queue', "/r") = list_count(event_queue, "/r") + 1
             /\ event_queue' = Append(event_queue, "/r")
             /\ is_alive(log_streaming_thread)
             /\ ppc = "idle" /\ ppc' = "append"
             /\ cur'.transaction = "/r"]_vars

\* wait_for_route_hit("r") has returned on the event of the one recorded hit.
C34_Witness ==
  /\ fpc = "idle"
  /\ last.op = "wait" /\ last.arg = "/r" /\ last.outcome = "ok"
  /\ list_count(event_queue, "/r") = 0
  /\ Cardinality({i \in 1..Len(log_messages) : log_messages[i].transaction = "/r"}) = 1

====
